---- MODULE Spec2Model ----
(***************************************************************************)
(* A model of django-contact: the relational store (Contact, Phone,        *)
(* ContactPhone, ContactMembership, Group, ContactGroup) and the request   *)
(* handlers of django_contact/views.py with the serializers they call.     *)
(*                                                                         *)
(* Spec      phone-number requests served one at a time                    *)
(* ConcSpec  phone-number requests whose statements interleave, each       *)
(*           request's save() being one READ COMMITTED transaction         *)
(* GroupSpec group and group-member requests served one at a time          *)
(* AccessSpec   accessible_for and the group list over the stores the      *)
(*              schema allows                                              *)
(* ListSpec     contact-list requests served one at a time                 *)
(* AddConcSpec  add-member and contact-list add requests interleaved       *)
(* ContactSpec  contact requests served one at a time                      *)
(***************************************************************************)
EXTENDS Integers, Sequences, FiniteSets, TLC

VARIABLES
    contacts,          \* Contact rows: [id, user, nickname, company]
    next_contact_id,   \* the Contact table's id sequence
    phones,            \* Phone rows: [id, phone_number, phone_type]
    contact_phones,    \* ContactPhone rows: [contact, phone, is_primary]
    next_phone_id,     \* the Phone table's id sequence
    tx,                \* the request each worker is serving, when they interleave
    memberships,       \* ContactMembership rows: [id, owner, contact, starred]
    next_membership_id,\* the ContactMembership table's id sequence
    groups,            \* Group rows: [id, name, description, created_by, updated_by]
    contact_groups,    \* ContactGroup rows: [contact, group, role, inviter]
    next_group_id,     \* the Group table's id sequence
    request,           \* the last request served: [method, view]
    response,          \* the response to it
    served             \* number of requests served so far

contact_vars == <<contacts, next_contact_id>>
phone_vars == <<phones, contact_phones, next_phone_id, tx>>
list_vars == <<memberships, next_membership_id>>
group_vars == <<list_vars, groups, contact_groups, next_group_id>>
vars == <<contact_vars, phone_vars, group_vars, request, response, served>>

(***************************************************************************)
(* Bounds and input domains                                                *)
(***************************************************************************)
\* requests served in one behaviour of Spec
MaxRequests == 4

\* requests served in one behaviour of ConcSpec
MaxConcRequests == 2

\* An optional value is a set of at most one element: Absent is a payload
\* field the request does not carry, None a reference that is not set
Absent == {}
None == {}
Some(v) == {v}
The(s) == CHOOSE v \in s : TRUE

Users == {"u1", "u2", "u3", "u4"}

\* the workers that serve requests at once in ConcSpec
Workers == {"w1", "w2"}

\* the Contact rows present from the start: u4 has registered no contact
InitContacts ==
    { [id |-> 1, user |-> "u1", nickname |-> "", company |-> ""],
      [id |-> 2, user |-> "u2", nickname |-> "", company |-> ""],
      [id |-> 3, user |-> "u3", nickname |-> "", company |-> ""] }

\* Phone.PHONE_TYPE_CHOICES
TYPE_CELLPHONE == "cellphone"
TYPE_TELEPHONE == "telephone"
TYPE_TELEFAX == "telefax"
PHONE_TYPE_CHOICES == {TYPE_CELLPHONE, TYPE_TELEPHONE, TYPE_TELEFAX}

\* what the requests of the phone specifications carry
PhoneContactIdInputs == {1, 2, 4}
PhoneNumberInputs == {Some("+62811"), Absent}
PhoneTypeInputs == {Some(TYPE_CELLPHONE), Some(TYPE_TELEPHONE), Some("pager"), Absent}
IsPrimaryInputs == {Some(TRUE), Some(FALSE), Absent}
PhoneDataInputs ==
    [phone_number : PhoneNumberInputs,
     phone_type : PhoneTypeInputs,
     is_primary : IsPrimaryInputs]

\* what the requests of ConcSpec carry: payloads that pass is_valid()
ConcDataInputs ==
    [phone_number : {Some("+62811")},
     phone_type : {Some(TYPE_CELLPHONE), Some(TYPE_TELEFAX)},
     is_primary : IsPrimaryInputs]

(***************************************************************************)
(* Responses                                                               *)
(***************************************************************************)
\* status: the HTTP status; detail: what the error says; cited: the contact
\* id an error message names; body: the rows serialized into the response
Response(status, detail, cited, body) ==
    [status |-> status, detail |-> detail, cited |-> cited, body |-> body]

NoResponse == Response(0, "none", None, {})

Request(method, view) == [method |-> method, view |-> view]

NoRequest == Request("none", "none")

\* django.http.Http404 and get_object_or_404
Http404 == Response(404, "not_found", None, {})

\* an exception no handler catches
ServerError(name) == Response(500, name, None, {})

(***************************************************************************)
(* models.py: ContactPhone                                                 *)
(***************************************************************************)
ContactExists(contact_id) == \E c \in contacts : c.id = contact_id

\* the mutant of _has_primary_phone that filters on the phone, not the contact
HasPrimaryPhoneOfPhone(cps, contact_id, phone_id) ==
    \E x \in cps : x.phone = phone_id /\ x.is_primary

\* ContactPhone._has_primary_phone of a row (contact_id, phone_id): the
\* filter is on contact_id and is_primary alone
HasPrimaryPhone(cps, contact_id, phone_id) ==
    \E x \in cps : x.contact = contact_id /\ x.is_primary

\* the ValidationError of clean(): 'Contact ID {} has primary phone already.'
CleanError(contact_id, phone_id) ==
    Response(400, "has_primary_phone", Some(contact_id), {})

\* ContactPhone(contact, phone, is_primary).clean(): None, or the error raised
Clean(cps, contact_id, phone_id, is_primary) ==
    IF is_primary /\ HasPrimaryPhone(cps, contact_id, phone_id)
    THEN Some(CleanError(contact_id, phone_id))
    ELSE None

(***************************************************************************)
(* serializers.py: PhoneDeserializer                                       *)
(***************************************************************************)
\* the value a field takes: the payload's, or on update the instance's
FieldValue(instance, data, field) ==
    IF data[field] = Absent /\ instance # None
    THEN Some(The(instance)[field])
    ELSE data[field]

\* is_valid(): the field errors, then the UniqueTogetherValidator of
\* Phone.Meta.unique_together, which leaves the instance itself out
PhoneIsValid(phs, instance, data, partial) ==
    LET required == ~partial
        number == FieldValue(instance, data, "phone_number")
        type == FieldValue(instance, data, "phone_type")
        me == {i.id : i \in instance}
    IN  IF required /\ (data.phone_number = Absent \/ data.phone_type = Absent)
        THEN Some(Response(400, "required", None, {}))
        ELSE IF data.phone_type # Absent /\ The(data.phone_type) \notin PHONE_TYPE_CHOICES
        THEN Some(Response(400, "invalid_choice", None, {}))
        ELSE IF \E p \in phs : /\ p.id \notin me
                               /\ Some(p.phone_number) = number
                               /\ Some(p.phone_type) = type
        THEN Some(Response(400, "unique", None, {}))
        ELSE None

\* what one transaction has written and not yet committed
NoWrites == [phone |-> None, cp |-> None]

\* the tables as the transaction sees them: the committed rows under its own
PhonesView(phs, ws) ==
    IF ws.phone = None THEN phs
    ELSE {p \in phs : p.id # The(ws.phone).id} \cup ws.phone

ContactPhonesView(cps, ws) ==
    IF ws.cp = None THEN cps
    ELSE {x \in cps : ~(x.contact = The(ws.cp).contact /\ x.phone = The(ws.cp).phone)}
         \cup ws.cp

\* a request inside save(): its arguments, the statement it is at, the
\* Phone it saved, its writes, whether the primary-phone check has passed,
\* the error that ended it
NewTx(contact_id, instance, data) ==
    [contact |-> contact_id, instance |-> instance, data |-> data, pc |-> 1,
     phone |-> None, ws |-> NoWrites, checked |-> FALSE, error |-> None]

\* the mutant of save() that writes the association before the check
SaveStatementsWriteFirst == <<"save_phone", "update_or_create", "validate">>

\* the statements of save() after the pop of is_primary, in the code's order
SaveStatements == <<"save_phone", "validate", "update_or_create">>

\* phone = super().save(**kwargs): INSERT a Phone, or UPDATE the instance
\* with the fields it was read with; the store's unique constraint on
\* (phone_number, phone_type) answers a duplicate with an IntegrityError
SavePhone(phs, t, next_id) ==
    LET id == IF t.instance = None THEN next_id ELSE The(t.instance).id
        row == [id |-> id,
                phone_number |-> The(FieldValue(t.instance, t.data, "phone_number")),
                phone_type |-> The(FieldValue(t.instance, t.data, "phone_type"))]
        duplicate == \E p \in phs : /\ p.id # id
                                     /\ p.phone_number = row.phone_number
                                     /\ p.phone_type = row.phone_type
    IN  [t |-> IF duplicate
               THEN [t EXCEPT !.error = Some(ServerError("IntegrityError"))]
               ELSE [t EXCEPT !.phone = Some(id), !.ws.phone = Some(row)],
         next_id |-> IF t.instance = None THEN next_id + 1 ELSE next_id]

\* self._validate_contact_phone(contact, phone, is_primary)
ValidateContactPhone(cps, t, next_id) ==
    LET err == Clean(ContactPhonesView(cps, t.ws), t.contact, The(t.phone),
                     The(t.data.is_primary))
    IN  [t |-> IF err = None THEN [t EXCEPT !.checked = TRUE]
               ELSE [t EXCEPT !.error = err],
         next_id |-> next_id]

\* ContactPhone.objects.update_or_create(contact, phone, defaults)
UpdateOrCreate(t, next_id) ==
    [t |-> [t EXCEPT !.ws.cp = Some([contact |-> t.contact, phone |-> The(t.phone),
                                     is_primary |-> The(t.data.is_primary)])],
     next_id |-> next_id]

\* save() has returned or raised
SaveEnded(t) == t.pc > Len(SaveStatements) \/ t.error # None

\* the statement at t.pc, run against the committed rows phs and cps
ExecStatement(phs, cps, t, next_id) ==
    LET stmt == SaveStatements[t.pc]
        r == CASE stmt = "save_phone" -> SavePhone(phs, t, next_id)
               [] stmt = "validate" -> ValidateContactPhone(cps, t, next_id)
               [] stmt = "update_or_create" -> UpdateOrCreate(t, next_id)
    IN  [t |-> [r.t EXCEPT !.pc = t.pc + 1], next_id |-> r.next_id]

RECURSIVE RunStatements(_, _, _, _)
RunStatements(phs, cps, t, next_id) ==
    IF SaveEnded(t)
    THEN [t |-> t, next_id |-> next_id]
    ELSE LET r == ExecStatement(phs, cps, t, next_id)
         IN  RunStatements(phs, cps, r.t, r.next_id)

\* is_primary = self.validated_data.pop('is_primary'): a KeyError when the
\* payload carried none
PopIsPrimary(t) ==
    IF t.data.is_primary = Absent
    THEN [t EXCEPT !.error = Some(ServerError("KeyError"))]
    ELSE t

\* the mutant of save() without @transaction.atomic: what was written
\* before the exception stays
Committed_NoRollback(rows, view, error) == view

\* @transaction.atomic: the writes are committed when save() returns and
\* rolled back when it raises
Committed(rows, view, error) == IF error = None THEN view ELSE rows

\* PhoneDeserializer.save() run to its end against the store
PhoneDeserializerSave(phs, cps, next_id, contact_id, instance, data) ==
    LET r == RunStatements(phs, cps, PopIsPrimary(NewTx(contact_id, instance, data)),
                           next_id)
    IN  [phones |-> Committed(phs, PhonesView(phs, r.t.ws), r.t.error),
         contact_phones |-> Committed(cps, ContactPhonesView(cps, r.t.ws),
                                      r.t.error),
         next_id |-> r.next_id,
         phone |-> r.t.phone,
         error |-> r.t.error]

(***************************************************************************)
(* views.py: the phone-number views                                        *)
(***************************************************************************)
\* BaseContactPhoneNumberView.get_queryset(): the contact's phones, each
\* with is_primary of its association
PhoneQueryset(phs, cps, contact_id) ==
    { [id |-> p.id, phone_number |-> p.phone_number,
       phone_type |-> p.phone_type, is_primary |-> x.is_primary] :
      <<p, x>> \in {<<q, y>> \in phs \X cps :
                       y.phone = q.id /\ y.contact = contact_id} }

\* get_object(): the Phone rows of the queryset with this pk
PhoneObjects(phs, cps, contact_id, pk) ==
    {p \in phs : p.id = pk /\ \E x \in cps : x.phone = pk /\ x.contact = contact_id}

Serve(req, resp) ==
    /\ served' = served + 1
    /\ request' = req
    /\ response' = resp

PhoneCreateRequest == Request("POST", "ContactPhoneNumberListView")
PhoneUpdateRequest == Request("PUT", "ContactPhoneNumberDetailView")
PhonePartialUpdateRequest == Request("PATCH", "ContactPhoneNumberDetailView")
PhoneDestroyRequest == Request("DELETE", "ContactPhoneNumberDetailView")

\* the store after save(), and the response: the error raised, or the row
\* of get_queryset().get(id=...) with the success status
PhoneSaved(req, r, contact_id, status) ==
    /\ phones' = r.phones
    /\ contact_phones' = r.contact_phones
    /\ next_phone_id' = r.next_id
    /\ Serve(req,
             IF r.error # None THEN The(r.error)
             ELSE Response(status, "ok", None,
                           {v \in PhoneQueryset(r.phones, r.contact_phones, contact_id) :
                               v.id \in r.phone}))

PhoneUntouched == UNCHANGED <<phones, contact_phones, next_phone_id>>

\* POST /contacts/{contact_id}/phone-numbers/
ContactPhoneNumberListViewCreate(contact_id, data) ==
    /\ served < MaxRequests
    /\ IF ~ContactExists(contact_id)
       THEN PhoneUntouched /\ Serve(PhoneCreateRequest, Http404)
       ELSE LET invalid == PhoneIsValid(phones, None, data, FALSE)
            IN  IF invalid # None
                THEN PhoneUntouched /\ Serve(PhoneCreateRequest, The(invalid))
                ELSE PhoneSaved(PhoneCreateRequest,
                                PhoneDeserializerSave(phones, contact_phones,
                                    next_phone_id, contact_id, None, data),
                                contact_id, 201)
    /\ UNCHANGED <<contact_vars, tx, group_vars>>

\* PUT and PATCH /contacts/{contact_id}/phone-numbers/{pk}/
UpdateRequest(partial) ==
    IF partial THEN PhonePartialUpdateRequest ELSE PhoneUpdateRequest

ContactPhoneNumberDetailViewUpdate(contact_id, pk, data, partial) ==
    /\ served < MaxRequests
    /\ IF ~ContactExists(contact_id)
          \/ PhoneObjects(phones, contact_phones, contact_id, pk) = {}
       THEN PhoneUntouched /\ Serve(UpdateRequest(partial), Http404)
       ELSE LET instance == PhoneObjects(phones, contact_phones, contact_id, pk)
                invalid == PhoneIsValid(phones, instance, data, partial)
            IN  IF invalid # None
                THEN PhoneUntouched /\ Serve(UpdateRequest(partial), The(invalid))
                ELSE PhoneSaved(UpdateRequest(partial),
                                PhoneDeserializerSave(phones, contact_phones,
                                    next_phone_id, contact_id, instance, data),
                                contact_id, 200)
    /\ UNCHANGED <<contact_vars, tx, group_vars>>

\* DELETE /contacts/{contact_id}/phone-numbers/{pk}/: instance.delete(),
\* which cascades to the ContactPhone rows of the phone
ContactPhoneNumberDetailViewDestroy(contact_id, pk) ==
    /\ served < MaxRequests
    /\ IF ~ContactExists(contact_id)
          \/ PhoneObjects(phones, contact_phones, contact_id, pk) = {}
       THEN PhoneUntouched /\ Serve(PhoneDestroyRequest, Http404)
       ELSE /\ phones' = {p \in phones : p.id # pk}
            /\ contact_phones' = {x \in contact_phones : x.phone # pk}
            /\ UNCHANGED next_phone_id
            /\ Serve(PhoneDestroyRequest, Response(204, "ok", None, {}))
    /\ UNCHANGED <<contact_vars, tx, group_vars>>

PhoneIds == 1..MaxRequests

\* the tables of the contact lists and the groups, empty
NoGroups ==
    /\ memberships = {}
    /\ next_membership_id = 1
    /\ groups = {}
    /\ contact_groups = {}
    /\ next_group_id = 1

IdleWorkers == [w \in Workers |-> None]

Init ==
    /\ contacts = InitContacts
    /\ next_contact_id = 4
    /\ phones = {}
    /\ contact_phones = {}
    /\ next_phone_id = 1
    /\ tx = IdleWorkers
    /\ NoGroups
    /\ request = NoRequest
    /\ response = NoResponse
    /\ served = 0

Next ==
    \/ \E c \in PhoneContactIdInputs, d \in PhoneDataInputs :
          ContactPhoneNumberListViewCreate(c, d)
    \/ \E c \in PhoneContactIdInputs, pk \in PhoneIds, d \in PhoneDataInputs,
          partial \in BOOLEAN :
          ContactPhoneNumberDetailViewUpdate(c, pk, d, partial)
    \/ \E c \in PhoneContactIdInputs, pk \in PhoneIds :
          ContactPhoneNumberDetailViewDestroy(c, pk)

Spec == Init /\ [][Next]_vars

(***************************************************************************)
(* ConcSpec: two workers serve phone-number requests at once.  The reads   *)
(* of the view (the contact, get_object(), is_valid()) see the committed   *)
(* rows; save() is a transaction under READ COMMITTED: each statement sees *)
(* the committed rows and the transaction's own writes, a row written by   *)
(* another open transaction makes the writer wait, and the writes reach    *)
(* the store when save() returns.                                          *)
(***************************************************************************)
InFlight == {w \in Workers : tx[w] # None}

\* the request a worker serves, the status of its success, and its save()
Serving(req, status, t) == [request |-> req, status |-> status, t |-> t]

Respond(w, req, resp) ==
    /\ tx' = [tx EXCEPT ![w] = None]
    /\ Serve(req, resp)

\* the view's part before save(), then the pop of is_primary
Begin(w, req, status, contact_id, instance, data, partial) ==
    /\ tx[w] = None
    /\ served + Cardinality(InFlight) < MaxConcRequests
    /\ LET invalid == PhoneIsValid(phones, instance, data, partial)
           t == PopIsPrimary(NewTx(contact_id, instance, data))
       IN  IF invalid # None THEN Respond(w, req, The(invalid))
           ELSE IF t.error # None THEN Respond(w, req, The(t.error))
           ELSE /\ tx' = [tx EXCEPT ![w] = Some(Serving(req, status, t))]
                /\ UNCHANGED <<request, response, served>>
    /\ UNCHANGED <<contact_vars, phones, contact_phones, next_phone_id, group_vars>>

\* POST /contacts/{contact_id}/phone-numbers/ arrives at worker w
BeginCreate(w, contact_id, data) ==
    /\ ContactExists(contact_id)
    /\ Begin(w, PhoneCreateRequest, 201, contact_id, None, data, FALSE)

\* PUT or PATCH /contacts/{contact_id}/phone-numbers/{pk}/ arrives at worker w
BeginUpdate(w, contact_id, pk, data, partial) ==
    /\ ContactExists(contact_id)
    /\ PhoneObjects(phones, contact_phones, contact_id, pk) # {}
    /\ Begin(w, UpdateRequest(partial), 200, contact_id,
             PhoneObjects(phones, contact_phones, contact_id, pk), data, partial)

\* the Phone row worker w's next statement writes, if it writes one
PhoneToWrite(w) ==
    LET t == The(tx[w]).t
    IN  IF SaveStatements[t.pc] = "save_phone"
        THEN SavePhone({}, t, next_phone_id).t.ws.phone
        ELSE None

\* the row lock and the unique index: the row, or its key, is held by a
\* transaction that has not ended
MustWait(w) ==
    \E v \in InFlight \ {w}, mine \in PhoneToWrite(w) :
        \E other \in The(tx[v]).t.ws.phone :
            \/ other.id = mine.id
            \/ /\ other.phone_number = mine.phone_number
               /\ other.phone_type = mine.phone_type

\* worker w runs the next statement of save(); an exception rolls back
Statement(w) ==
    /\ tx[w] # None
    /\ ~SaveEnded(The(tx[w]).t)
    /\ ~MustWait(w)
    /\ LET s == The(tx[w])
           r == ExecStatement(phones, contact_phones, s.t, next_phone_id)
       IN  /\ next_phone_id' = r.next_id
           /\ IF r.t.error # None
              THEN /\ phones' = Committed(phones, PhonesView(phones, r.t.ws),
                                           r.t.error)
                   /\ contact_phones' =
                         Committed(contact_phones,
                                   ContactPhonesView(contact_phones, r.t.ws),
                                   r.t.error)
                   /\ Respond(w, s.request, The(r.t.error))
              ELSE /\ tx' = [tx EXCEPT ![w] = Some(Serving(s.request, s.status, r.t))]
                   /\ UNCHANGED <<phones, contact_phones, request, response, served>>
    /\ UNCHANGED <<contact_vars, group_vars>>

\* save() returns: the transaction commits and the view answers
Commit(w) ==
    /\ tx[w] # None
    /\ SaveEnded(The(tx[w]).t)
    /\ LET s == The(tx[w])
           phs == Committed(phones, PhonesView(phones, s.t.ws), s.t.error)
           cps == Committed(contact_phones,
                            ContactPhonesView(contact_phones, s.t.ws), s.t.error)
       IN  /\ phones' = phs
           /\ contact_phones' = cps
           /\ Respond(w, s.request,
                      Response(s.status, "ok", None,
                               {v \in PhoneQueryset(phs, cps, s.t.contact) :
                                   v.id \in s.t.phone}))
    /\ UNCHANGED <<contact_vars, next_phone_id, group_vars>>

ConcNext ==
    \/ \E w \in Workers, c \in PhoneContactIdInputs, d \in ConcDataInputs :
          BeginCreate(w, c, d)
    \/ \E w \in Workers, c \in PhoneContactIdInputs, pk \in PhoneIds,
          d \in ConcDataInputs, partial \in BOOLEAN :
          BeginUpdate(w, c, pk, d, partial)
    \/ \E w \in Workers : Statement(w)
    \/ \E w \in Workers : Commit(w)

\* ConcSpec starts from an empty store, or from the store after contact 1
\* has registered two phones, neither of them primary
TwoPhones ==
    { [id |-> 1, phone_number |-> "+62811", phone_type |-> TYPE_CELLPHONE],
      [id |-> 2, phone_number |-> "+62811", phone_type |-> TYPE_TELEPHONE] }

ConcInit ==
    /\ contacts = InitContacts
    /\ next_contact_id = 4
    /\ \/ /\ phones = {}
          /\ contact_phones = {}
          /\ next_phone_id = 1
       \/ /\ phones = TwoPhones
          /\ contact_phones =
                {[contact |-> 1, phone |-> p.id, is_primary |-> FALSE] : p \in TwoPhones}
          /\ next_phone_id = 3
    /\ tx = IdleWorkers
    /\ NoGroups
    /\ request = NoRequest
    /\ response = NoResponse
    /\ served = 0

ConcSpec == ConcInit /\ [][ConcNext]_vars

(***************************************************************************)
(* models.py: Group and ContactGroup; permissions.py                       *)
(***************************************************************************)
\* requests served in one behaviour of GroupSpec
MaxGroupRequests == 3

ROLE_ADMIN == "admin"
ROLE_MEMBER == "member"
ROLE_CHOICES == {ROLE_ADMIN, ROLE_MEMBER}

\* user.contact, the reverse of Contact.user
ContactsOf(user) == {c.id : c \in {x \in contacts : x.user = user}}

RowsOfGroup(cgs, group_id) == {x \in cgs : x.group = group_id}

\* IsGroupAdmin.has_permission(): group_id, contact__user, role = admin
IsGroupAdmin(cgs, group_id, user) ==
    \E x \in RowsOfGroup(cgs, group_id) :
        x.contact \in ContactsOf(user) /\ x.role = ROLE_ADMIN

\* IsGroupMember.has_permission(): group_id, contact__user
IsGroupMember(cgs, group_id, user) ==
    \E x \in RowsOfGroup(cgs, group_id) : x.contact \in ContactsOf(user)

\* the mutant of the creator's row that takes the model's default role
CreatorDefaults_DefaultRole(contact_id) ==
    [role |-> ROLE_MEMBER, inviter |-> contact_id]

\* through_defaults of the creator's row in GroupDeserializer.save()
CreatorDefaults(contact_id) == [role |-> ROLE_ADMIN, inviter |-> contact_id]

\* the mutant of add() that writes through_defaults over the row of a
\* contact that is in the group already
RelatedAdd_Replace(cgs, group_id, contact_id, defaults) ==
    {x \in cgs : ~(x.group = group_id /\ x.contact = contact_id)}
    \cup {[contact |-> contact_id, group |-> group_id,
            role |-> defaults.role, inviter |-> defaults.inviter]}

\* group.contacts.add(contact, through_defaults): a contact that is in the
\* group already is left as it is
RelatedAdd(cgs, group_id, contact_id, defaults) ==
    IF \E x \in RowsOfGroup(cgs, group_id) : x.contact = contact_id
    THEN cgs
    ELSE cgs \cup {[contact |-> contact_id, group |-> group_id,
                    role |-> defaults.role, inviter |-> defaults.inviter]}

\* owner.contacts.remove(contact): Contact.contacts is a ManyToManyField to
\* 'self' that does not set symmetrical=False, so the mirror rows go too
ContactRelatedRemove(ms, owner_id, contact_id) ==
    {m \in ms : ~(\/ m.owner = owner_id /\ m.contact = contact_id
                  \/ m.owner = contact_id /\ m.contact = owner_id)}

(***************************************************************************)
(* serializers.py: GroupDeserializer, ContactGroupDeserializer             *)
(***************************************************************************)
GroupNameInputs == {Some("Engineering"), Absent}
\* the payloads of POST /groups/ leave the optional description out
GroupDataInputs == [name : GroupNameInputs, description : {Absent}]

\* is_valid(): name is required unless the update is partial; validate()
\* wants the requester's contact
GroupIsValid(user, data, partial) ==
    IF ~partial /\ data.name = Absent
    THEN Some(Response(400, "required", None, {}))
    ELSE IF ContactsOf(user) = {} THEN Some(Response(400, "no_contact", None, {}))
    ELSE None

\* the mutant of a save() that writes the default into a field the payload
\* leaves out
SavedValue_Cleared(instance, data, field, default) ==
    IF data[field] # Absent THEN The(data[field]) ELSE default

\* the value a model field gets from save(): the payload's, else the
\* instance's, else the field's default
SavedValue(instance, data, field, default) ==
    IF data[field] # Absent THEN The(data[field])
    ELSE IF instance # None THEN The(instance)[field]
    ELSE default

\* GroupDeserializer.save(): with an instance the row is written with
\* updated_by, without one it is inserted with created_by; then, on both
\* paths, contacts.add() of the requester's contact as admin, whose INSERT
\* the store fails when store_fault
GroupDeserializerSave(gs, cgs, next_id, user, instance, data, store_fault) ==
    LET contact == The(ContactsOf(user))
        group == [id |-> IF instance # None THEN The(instance).id ELSE next_id,
                  name |-> SavedValue(instance, data, "name", ""),
                  description |-> SavedValue(instance, data, "description", ""),
                  created_by |-> IF instance # None THEN The(instance).created_by
                                 ELSE contact,
                  updated_by |-> IF instance # None THEN Some(contact) ELSE None]
        error == IF store_fault THEN Some(ServerError("DatabaseError")) ELSE None
    IN  [groups |-> Committed(gs, (gs \ instance) \cup {group}, error),
         contact_groups |->
             Committed(cgs,
                       IF store_fault THEN cgs
                       ELSE RelatedAdd(cgs, group.id, contact, CreatorDefaults(contact)),
                       error),
         next_id |-> IF instance # None THEN next_id ELSE next_id + 1,
         group |-> group,
         error |-> error]

\* payloads of the member requests: the complete ones, one of them naming an
\* inviter that is not in the group, then one with a key
\* of no Contact, with a role outside the choices, without inviter, with the
\* role alone and with nothing
MemberDataInputs ==
    [contact : {Some(2), Some(3)}, role : {Some(ROLE_ADMIN), Some(ROLE_MEMBER)},
     inviter : {Some(1)}]
    \cup { [contact |-> Some(2), role |-> Some(ROLE_MEMBER), inviter |-> Some(3)],
           [contact |-> Some(9), role |-> Some(ROLE_MEMBER), inviter |-> Some(1)],
           [contact |-> Some(2), role |-> Some("owner"), inviter |-> Some(1)],
           [contact |-> Some(2), role |-> Some(ROLE_MEMBER), inviter |-> Absent],
           [contact |-> Absent, role |-> Some(ROLE_ADMIN), inviter |-> Absent],
           [contact |-> Absent, role |-> Absent, inviter |-> Absent] }

\* ContactGroupDeserializer.is_valid(): the three fields are required, the
\* two keys must be Contact rows, the role one of ROLE_CHOICES
ContactGroupIsValid(data, partial) ==
    IF ~partial /\ (data.contact = Absent \/ data.role = Absent \/ data.inviter = Absent)
    THEN Some(Response(400, "required", None, {}))
    ELSE IF \E id \in data.contact \cup data.inviter : ~ContactExists(id)
    THEN Some(Response(400, "does_not_exist", None, {}))
    ELSE IF \E role \in data.role : role \notin ROLE_CHOICES
    THEN Some(Response(400, "invalid_choice", None, {}))
    ELSE None

\* ContactGroupDeserializer.create(): the role and the inviter of the payload
ContactGroupDeserializerCreate(cgs, group_id, data) ==
    RelatedAdd(cgs, group_id, The(data.contact),
               [role |-> The(data.role), inviter |-> The(data.inviter)])

\* ContactGroupDeserializer.update(): filter(contact, group).update(role)
ContactGroupDeserializerUpdate(cgs, group_id, contact_id, role) ==
    {IF x.group = group_id /\ x.contact = contact_id
     THEN [x EXCEPT !.role = role] ELSE x : x \in cgs}

(***************************************************************************)
(* views.py: the group-member views                                        *)
(***************************************************************************)
\* the row the LEFT OUTER JOIN gives a group that has no ContactGroup row
NullRow == [contact |-> 0, group |-> 0, role |-> "null", inviter |-> 0]

JoinRows(cgs, g) ==
    IF RowsOfGroup(cgs, g.id) = {} THEN {NullRow} ELSE RowsOfGroup(cgs, g.id)

\* Q(created_by=self.request.user): the group's creator is the requester's
\* contact
CreatedBy(g, user) == g.created_by \in ContactsOf(user)

\* BaseContactGroupView.get_queryset() of the member views, narrowed to
\* id = group_id: one row for each row of Group joined to ContactGroup that
\* the filter keeps, with no distinct()
GroupMatches(gs, cgs, user, group_id) ==
    {m \in gs \X (cgs \cup {NullRow}) :
        /\ m[1].id = group_id
        /\ m[2] \in JoinRows(cgs, m[1])
        /\ (CreatedBy(m[1], user) \/ m[2].contact \in ContactsOf(user))}

\* .get(id=group_id) of that queryset
GroupGet(gs, cgs, user, group_id) ==
    LET n == Cardinality(GroupMatches(gs, cgs, user, group_id))
    IN  IF n = 0 THEN "DoesNotExist"
        ELSE IF n > 1 THEN "MultipleObjectsReturned"
        ELSE "ok"

\* get_contacts_of(group): the members with role and invited_by
ContactsOfGroup(cgs, group_id) ==
    {[id |-> x.contact, role |-> x.role, invited_by |-> x.inviter] :
        x \in RowsOfGroup(cgs, group_id)}

MemberViews(cgs, group_id, pk) == {v \in ContactsOfGroup(cgs, group_id) : v.id = pk}

GroupCreateRequest == Request("POST", "GroupListView")
MemberListRequest == Request("GET", "ContactGroupView")
MemberCreateRequest == Request("POST", "ContactGroupView")
MemberRetrieveRequest == Request("GET", "ContactGroupDetailView")
MemberUpdateRequest == Request("PUT", "ContactGroupDetailView")
MemberPartialUpdateRequest == Request("PATCH", "ContactGroupDetailView")
MemberDestroyRequest == Request("DELETE", "ContactGroupDetailView")

GroupServe(req, resp) ==
    /\ served < MaxGroupRequests
    /\ Serve(req, resp)
    /\ UNCHANGED <<contact_vars, phone_vars>>

GroupsUntouched == UNCHANGED <<groups, contact_groups, next_group_id, list_vars>>

\* POST /groups/
GroupListViewCreate(user, data, store_fault) ==
    LET invalid == GroupIsValid(user, data, FALSE)
        r == GroupDeserializerSave(groups, contact_groups, next_group_id, user,
                                   None, data, store_fault)
    IN  IF invalid # None
        THEN GroupsUntouched /\ GroupServe(GroupCreateRequest, The(invalid))
        ELSE /\ groups' = r.groups
             /\ contact_groups' = r.contact_groups
             /\ next_group_id' = r.next_id
             /\ UNCHANGED list_vars
             /\ GroupServe(GroupCreateRequest,
                           IF r.error # None THEN The(r.error)
                           ELSE Response(201, "ok", None, {r.group}))

\* GET /groups/{group_id}/contacts/: get_queryset() catches
\* Contact.DoesNotExist, which groups.get() does not raise
ContactGroupViewList(user, group_id) ==
    LET found == GroupGet(groups, contact_groups, user, group_id)
    IN  /\ GroupsUntouched
        /\ GroupServe(MemberListRequest,
                      IF found # "ok" THEN ServerError(found)
                      ELSE Response(200, "ok", None,
                                    ContactsOfGroup(contact_groups, group_id)))

\* POST /groups/{group_id}/contacts/
ContactGroupViewCreate(user, group_id, data) ==
    LET found == GroupGet(groups, contact_groups, user, group_id)
        invalid == ContactGroupIsValid(data, FALSE)
        cgs == ContactGroupDeserializerCreate(contact_groups, group_id, data)
        again == GroupGet(groups, cgs, user, group_id)
    IN  IF found = "DoesNotExist"
        THEN GroupsUntouched /\ GroupServe(MemberCreateRequest, Http404)
        ELSE IF found # "ok"
        THEN GroupsUntouched /\ GroupServe(MemberCreateRequest, ServerError(found))
        ELSE IF invalid # None
        THEN GroupsUntouched /\ GroupServe(MemberCreateRequest, The(invalid))
        ELSE /\ contact_groups' = cgs
             /\ UNCHANGED <<groups, next_group_id, list_vars>>
             /\ GroupServe(MemberCreateRequest,
                           IF again # "ok" THEN ServerError(again)
                           ELSE Response(201, "ok", None,
                                         MemberViews(cgs, group_id, The(data.contact))))

\* get_object() of ContactGroupDetailView: the group, then the member pk
MemberObject(user, group_id, pk) ==
    LET found == GroupGet(groups, contact_groups, user, group_id)
    IN  IF found = "DoesNotExist" THEN Some(Http404)
        ELSE IF found # "ok" THEN Some(ServerError(found))
        ELSE IF MemberViews(contact_groups, group_id, pk) = {} THEN Some(Http404)
        ELSE None

\* GET /groups/{group_id}/contacts/{pk}/
ContactGroupDetailViewRetrieve(user, group_id, pk) ==
    LET missing == MemberObject(user, group_id, pk)
    IN  /\ GroupsUntouched
        /\ GroupServe(MemberRetrieveRequest,
                      IF missing # None THEN The(missing)
                      ELSE Response(200, "ok", None,
                                    MemberViews(contact_groups, group_id, pk)))

MemberUpdateRequestOf(partial) ==
    IF partial THEN MemberPartialUpdateRequest ELSE MemberUpdateRequest

\* PUT and PATCH /groups/{group_id}/contacts/{pk}/: a payload without role
\* makes update(role=None), which the NOT NULL column refuses
ContactGroupDetailViewUpdate(user, group_id, pk, data, partial) ==
    LET req == MemberUpdateRequestOf(partial)
        missing == MemberObject(user, group_id, pk)
        invalid == ContactGroupIsValid(data, partial)
        cgs == ContactGroupDeserializerUpdate(contact_groups, group_id, pk,
                                              The(data.role))
    IN  IF missing # None
        THEN GroupsUntouched /\ GroupServe(req, The(missing))
        ELSE IF invalid # None
        THEN GroupsUntouched /\ GroupServe(req, The(invalid))
        ELSE IF data.role = Absent
        THEN GroupsUntouched /\ GroupServe(req, ServerError("IntegrityError"))
        ELSE /\ contact_groups' = cgs
             /\ UNCHANGED <<groups, next_group_id, list_vars>>
             /\ GroupServe(req, Response(200, "ok", None,
                                         MemberViews(cgs, group_id, pk)))

\* ContactGroupDetailView.perform_destroy(): self.get_queryset() is the
\* queryset of the group's member contacts, so .get(id=group_id) is the
\* member whose own id is group_id, and instance is removed from the
\* contact list of that contact
PerformDestroy(ms, cgs, group_id, pk) ==
    IF MemberViews(cgs, group_id, group_id) = {}
    THEN [memberships |-> ms, contact_groups |-> cgs,
          error |-> Some(ServerError("DoesNotExist"))]
    ELSE [memberships |-> ContactRelatedRemove(ms, group_id, pk),
          contact_groups |-> cgs,
          error |-> None]

\* DELETE /groups/{group_id}/contacts/{pk}/
ContactGroupDetailViewDestroy(user, group_id, pk) ==
    LET missing == MemberObject(user, group_id, pk)
        r == PerformDestroy(memberships, contact_groups, group_id, pk)
    IN  IF missing # None
        THEN GroupsUntouched /\ GroupServe(MemberDestroyRequest, The(missing))
        ELSE /\ memberships' = r.memberships
             /\ contact_groups' = r.contact_groups
             /\ UNCHANGED <<groups, next_group_id, next_membership_id>>
             /\ GroupServe(MemberDestroyRequest,
                           IF r.error # None THEN The(r.error)
                           ELSE Response(204, "ok", None, {}))


GroupIds == {1, 2}
MemberPkInputs == {1, 2, 3}

(***************************************************************************)
(* models.py: GroupQuerySet.accessible_for; views.py: the group list       *)
(***************************************************************************)
\* the mutant of distinct() that keeps every row of the join
Distinct_Missing(rows) == rows

\* QuerySet.distinct() on a queryset of Group: the rows of the join that
\* carry the same Group are one row
Distinct(rows) == {<<m[1], NullRow>> : m \in rows}

\* filter(Q(created_by=contact) | Q(contactgroup__contact=contact)): the rows
\* of Group joined to ContactGroup that the filter keeps
AccessibleRows(gs, cgs, contact_id) ==
    {m \in gs \X (cgs \cup {NullRow}) :
        /\ m[2] \in JoinRows(cgs, m[1])
        /\ (m[1].created_by = contact_id \/ m[2].contact = contact_id)}

\* GroupQuerySet.accessible_for(contact)
AccessibleFor(gs, cgs, contact_id) == Distinct(AccessibleRows(gs, cgs, contact_id))

\* BaseContactGroupView.get_queryset() of the group views: the same filter
\* through the requester, ending with distinct()
GroupQueryset(gs, cgs, user) ==
    Distinct({m \in gs \X (cgs \cup {NullRow}) :
                 /\ m[2] \in JoinRows(cgs, m[1])
                 /\ (CreatedBy(m[1], user) \/ m[2].contact \in ContactsOf(user))})

AccessibleForCall == Request("call", "GroupQuerySet.accessible_for")
GroupListRequest == Request("GET", "GroupListView")

\* Group.objects.accessible_for(contact), the result kept in the response
GroupQuerySetAccessibleFor(contact_id) ==
    /\ GroupsUntouched
    /\ GroupServe(AccessibleForCall,
                  Response(200, "ok", Some(contact_id),
                           AccessibleFor(groups, contact_groups, contact_id)))

\* GET /groups/
GroupListViewList(user) ==
    /\ GroupsUntouched
    /\ GroupServe(GroupListRequest,
                  Response(200, "ok", None,
                           GroupQueryset(groups, contact_groups, user)))

(***************************************************************************)
(* The specifications of the group requests                                *)
(***************************************************************************)
\* the contact lists after contacts 1 and 2 have added each other
ListedContacts ==
    { [id |-> 1, owner |-> 1, contact |-> 2, starred |-> FALSE],
      [id |-> 2, owner |-> 2, contact |-> 1, starred |-> TRUE] }

GroupInit ==
    /\ contacts = InitContacts
    /\ next_contact_id = 4
    /\ phones = {}
    /\ contact_phones = {}
    /\ next_phone_id = 1
    /\ tx = IdleWorkers
    /\ memberships \in {{}, ListedContacts}
    /\ next_membership_id = Cardinality(memberships) + 1
    /\ groups = {}
    /\ contact_groups = {}
    /\ next_group_id = 1
    /\ request = NoRequest
    /\ response = NoResponse
    /\ served = 0

GroupNext ==
    \/ \E u \in Users, d \in GroupDataInputs, store_fault \in BOOLEAN :
          GroupListViewCreate(u, d, store_fault)
    \/ \E u \in Users : GroupListViewList(u)
    \/ \E u \in Users, g \in GroupIds : ContactGroupViewList(u, g)
    \/ \E u \in Users, g \in GroupIds, d \in MemberDataInputs :
          ContactGroupViewCreate(u, g, d)
    \/ \E u \in Users, g \in GroupIds, pk \in MemberPkInputs :
          ContactGroupDetailViewRetrieve(u, g, pk)
    \/ \E u \in Users, g \in GroupIds, pk \in MemberPkInputs,
          d \in MemberDataInputs, partial \in BOOLEAN :
          ContactGroupDetailViewUpdate(u, g, pk, d, partial)
    \/ \E u \in Users, g \in GroupIds, pk \in MemberPkInputs :
          ContactGroupDetailViewDestroy(u, g, pk)

GroupSpec == GroupInit /\ [][GroupNext]_vars

\* the stores of Group and ContactGroup rows that the schema allows: ids are
\* keys, foreign keys name rows, (contact, group) is unique
StoredGroups ==
    {gs \in SUBSET [id : GroupIds, name : {"Engineering"}, description : {""},
                    created_by : {1, 2}, updated_by : {None}] :
        \A g, h \in gs : g.id = h.id => g = h}

StoredContactGroups(gs) ==
    SUBSET {x \in [contact : {1, 2, 3}, group : GroupIds,
                   role : {ROLE_MEMBER}, inviter : {1}] :
               \E g \in gs : g.id = x.group}

AccessInit ==
    /\ contacts = InitContacts
    /\ next_contact_id = 4
    /\ phones = {}
    /\ contact_phones = {}
    /\ next_phone_id = 1
    /\ tx = IdleWorkers
    /\ memberships = {}
    /\ next_membership_id = 1
    /\ groups \in StoredGroups
    /\ contact_groups \in StoredContactGroups(groups)
    /\ next_group_id = 3
    /\ request = NoRequest
    /\ response = NoResponse
    /\ served = 0

AccessNext ==
    \/ \E c \in {1, 2, 3} : GroupQuerySetAccessibleFor(c)
    \/ \E u \in Users : GroupListViewList(u)

AccessSpec == AccessInit /\ [][AccessNext]_vars

(***************************************************************************)
(* The contact list: ContactMembership, ContactOfContactDeserializer and   *)
(* the contact-list views                                                  *)
(***************************************************************************)
\* requests served in one behaviour of ListSpec
MaxListRequests == 3

ListOwnerInputs == {1, 2, 4}
ListContactInputs == {Some(1), Some(2), Some(3), Some(9), Absent}
StarredInputs == {Some(TRUE), Some(FALSE), Absent}
ListDataInputs == [contact : ListContactInputs, starred : StarredInputs]
ListPkInputs == {1, 2, 3}

\* is_valid(): contact is required and must be the key of a Contact
ContactOfContactIsValid(data) ==
    IF data.contact = Absent THEN Some(Response(400, "required", None, {}))
    ELSE IF ~ContactExists(The(data.contact))
    THEN Some(Response(400, "does_not_exist", None, {}))
    ELSE None

\* starred = serializers.BooleanField(default=False)
StarredValue(data) == IF data.starred = Absent THEN FALSE ELSE The(data.starred)

MembershipRows(ms, owner_id, contact_id) ==
    {m \in ms : m.owner = owner_id /\ m.contact = contact_id}

\* the mutant of _add_items() that inserts without looking for the row
AddItems_Unchecked(r, owner_id, contact_id, starred) ==
    [rows |-> r.rows \cup {[id |-> r.next_id, owner |-> owner_id,
                            contact |-> contact_id, starred |-> starred]},
     next_id |-> r.next_id + 1]

\* ManyRelatedManager._add_items(): the target that has no row yet is inserted
\* with through_defaults, the one that has a row is skipped
AddItems(r, owner_id, contact_id, starred) ==
    IF MembershipRows(r.rows, owner_id, contact_id) # {}
    THEN r
    ELSE [rows |-> r.rows \cup {[id |-> r.next_id, owner |-> owner_id,
                                 contact |-> contact_id, starred |-> starred]},
          next_id |-> r.next_id + 1]

\* owner.contacts.add(contact, through_defaults={'starred': starred}): the
\* relation is symmetrical, so add() makes the mirror entry as well
ContactRelatedAdd(ms, next_id, owner_id, contact_id, starred) ==
    AddItems(AddItems([rows |-> ms, next_id |-> next_id],
                      owner_id, contact_id, starred),
             contact_id, owner_id, starred)

\* BaseContactOfContactView.get_queryset() narrowed to id = pk: the contact
\* pk once for each ContactMembership row (owner, pk), with its starred
ContactListViews(ms, owner_id, pk) ==
    {[row |-> m.id, id |-> m.contact, starred |-> m.starred] :
        m \in MembershipRows(ms, owner_id, pk)}

\* .get(id=pk) of that queryset
ContactListGet(ms, owner_id, pk) ==
    LET n == Cardinality(ContactListViews(ms, owner_id, pk))
    IN  IF n = 0 THEN "DoesNotExist"
        ELSE IF n > 1 THEN "MultipleObjectsReturned"
        ELSE "ok"

ListCreateRequest == Request("POST", "ContactOfContactListView")
ListDestroyRequest == Request("DELETE", "ContactOfContactDetailView")

ListServe(req, resp) ==
    /\ served < MaxListRequests
    /\ Serve(req, resp)
    /\ UNCHANGED <<contact_vars, phone_vars, groups, contact_groups, next_group_id>>

\* POST /contacts/{contact_id}/contact-list/
ContactOfContactListViewCreate(contact_id, data) ==
    LET invalid == ContactOfContactIsValid(data)
        r == ContactRelatedAdd(memberships, next_membership_id, contact_id,
                               The(data.contact), StarredValue(data))
        found == ContactListGet(r.rows, contact_id, The(data.contact))
    IN  IF ~ContactExists(contact_id)
        THEN UNCHANGED list_vars /\ ListServe(ListCreateRequest, Http404)
        ELSE IF invalid # None
        THEN UNCHANGED list_vars /\ ListServe(ListCreateRequest, The(invalid))
        ELSE /\ memberships' = r.rows
             /\ next_membership_id' = r.next_id
             /\ ListServe(ListCreateRequest,
                          IF found # "ok" THEN ServerError(found)
                          ELSE Response(201, "ok", None,
                                        ContactListViews(r.rows, contact_id,
                                                         The(data.contact))))

\* DELETE /contacts/{contact_id}/contact-list/{pk}/: get_object(), then
\* perform_destroy()
ContactOfContactDetailViewDestroy(contact_id, pk) ==
    LET found == ContactListGet(memberships, contact_id, pk)
    IN  IF ~ContactExists(contact_id) \/ found = "DoesNotExist"
        THEN UNCHANGED list_vars /\ ListServe(ListDestroyRequest, Http404)
        ELSE IF found # "ok"
        THEN UNCHANGED list_vars /\ ListServe(ListDestroyRequest, ServerError(found))
        ELSE /\ memberships' = ContactRelatedRemove(memberships, contact_id, pk)
             /\ UNCHANGED next_membership_id
             /\ ListServe(ListDestroyRequest, Response(204, "ok", None, {}))

ListInit ==
    /\ contacts = InitContacts
    /\ next_contact_id = 4
    /\ phones = {}
    /\ contact_phones = {}
    /\ next_phone_id = 1
    /\ tx = IdleWorkers
    /\ NoGroups
    /\ request = NoRequest
    /\ response = NoResponse
    /\ served = 0

ListNext ==
    \/ \E c \in ListOwnerInputs, d \in ListDataInputs :
          ContactOfContactListViewCreate(c, d)
    \/ \E c \in ListOwnerInputs, pk \in ListPkInputs :
          ContactOfContactDetailViewDestroy(c, pk)

ListSpec == ListInit /\ [][ListNext]_vars

(***************************************************************************)
(* AddConcSpec: add-member and contact-list add requests whose statements  *)
(* interleave.  add() is one READ COMMITTED transaction: for each entry a  *)
(* SELECT of the rows there are, then an INSERT of the one that is missing *)
(***************************************************************************)
ConcMemberInputs == {d \in MemberDataInputs : d.contact \in {Some(2), Some(9)}}
ConcListInputs == [contact : {Some(1), Some(2)}, starred : {Some(TRUE), Absent}]

\* the entries add() makes: <<source, target>> for the members of a group,
\* the entry and its mirror for the symmetrical contact list
MemberEntries(group_id, contact_id) == << <<group_id, contact_id>> >>
ListEntries(owner_id, contact_id) ==
    << <<owner_id, contact_id>>, <<contact_id, owner_id>> >>

AddTx(kind, req, user, source, target, defaults, entries) ==
    [kind |-> kind, request |-> req, user |-> user, source |-> source,
     target |-> target, defaults |-> defaults, pending |-> entries,
     pc |-> "select", ws |-> {}, error |-> None]

\* the rows of an entry among rows of the through table of its kind
EntryRows(kind, rows, entry) ==
    IF kind = "member"
    THEN {x \in rows : x.group = entry[1] /\ x.contact = entry[2]}
    ELSE MembershipRows(rows, entry[1], entry[2])

\* the mutant of the unique constraints in which ContactGroup has none
UniqueTogether_None(kind) == FALSE

\* Meta.unique_together: ContactGroup declares (contact, group),
\* ContactMembership declares nothing
UniqueTogether(kind) == kind = "member"

\* the committed rows of the through table a transaction writes
ThroughRows(kind) == IF kind = "member" THEN contact_groups ELSE memberships

\* POST /groups/{group_id}/contacts/ arrives at worker w
BeginMemberAdd(w, user, group_id, data) ==
    /\ tx[w] = None
    /\ served + Cardinality(InFlight) < MaxConcRequests
    /\ LET found == GroupGet(groups, contact_groups, user, group_id)
           invalid == ContactGroupIsValid(data, FALSE)
       IN  IF found = "DoesNotExist" THEN Respond(w, MemberCreateRequest, Http404)
           ELSE IF found # "ok" THEN Respond(w, MemberCreateRequest, ServerError(found))
           ELSE IF invalid # None THEN Respond(w, MemberCreateRequest, The(invalid))
           ELSE /\ tx' = [tx EXCEPT ![w] =
                            Some(AddTx("member", MemberCreateRequest, user, group_id,
                                       The(data.contact),
                                       [role |-> The(data.role),
                                        inviter |-> The(data.inviter)],
                                       MemberEntries(group_id, The(data.contact))))]
                /\ UNCHANGED <<request, response, served>>
    /\ UNCHANGED <<contact_vars, phones, contact_phones, next_phone_id, group_vars>>

\* POST /contacts/{contact_id}/contact-list/ arrives at worker w
BeginListAdd(w, contact_id, data) ==
    /\ tx[w] = None
    /\ served + Cardinality(InFlight) < MaxConcRequests
    /\ LET invalid == ContactOfContactIsValid(data)
       IN  IF ~ContactExists(contact_id) THEN Respond(w, ListCreateRequest, Http404)
           ELSE IF invalid # None THEN Respond(w, ListCreateRequest, The(invalid))
           ELSE /\ tx' = [tx EXCEPT ![w] =
                            Some(AddTx("list", ListCreateRequest, "none", contact_id,
                                       The(data.contact),
                                       [starred |-> StarredValue(data)],
                                       ListEntries(contact_id, The(data.contact))))]
                /\ UNCHANGED <<request, response, served>>
    /\ UNCHANGED <<contact_vars, phones, contact_phones, next_phone_id, group_vars>>

\* _get_missing_target_ids(): the SELECT sees the committed rows and the
\* transaction's own; an entry that has a row is skipped
AddSelect(w) ==
    /\ tx[w] # None
    /\ LET t == The(tx[w])
       IN  /\ t.pc = "select" /\ t.pending # <<>>
           /\ tx' = [tx EXCEPT ![w] =
                       Some(IF EntryRows(t.kind, ThroughRows(t.kind) \cup t.ws,
                                         Head(t.pending)) # {}
                            THEN [t EXCEPT !.pending = Tail(t.pending)]
                            ELSE [t EXCEPT !.pc = "insert"])]
    /\ UNCHANGED <<contact_vars, phones, contact_phones, next_phone_id, group_vars,
                   request, response, served>>

\* the row the INSERT of worker w writes
RowToInsert(t, next_id) ==
    IF t.kind = "member"
    THEN [contact |-> Head(t.pending)[2], group |-> Head(t.pending)[1],
          role |-> t.defaults.role, inviter |-> t.defaults.inviter]
    ELSE [id |-> next_id, owner |-> Head(t.pending)[1],
          contact |-> Head(t.pending)[2], starred |-> t.defaults.starred]

\* the unique index makes the INSERT wait for a transaction that holds the key
AddMustWait(w) ==
    LET t == The(tx[w])
    IN  /\ UniqueTogether(t.kind)
        /\ \E v \in InFlight \ {w} :
              /\ The(tx[v]).kind = t.kind
              /\ EntryRows(t.kind, The(tx[v]).ws, Head(t.pending)) # {}

\* through.bulk_create(): an IntegrityError when the key is there by now
AddInsert(w) ==
    /\ tx[w] # None
    /\ The(tx[w]).pc = "insert"
    /\ ~AddMustWait(w)
    /\ LET t == The(tx[w])
           taken == /\ UniqueTogether(t.kind)
                    /\ EntryRows(t.kind, ThroughRows(t.kind), Head(t.pending)) # {}
       IN  /\ tx' = [tx EXCEPT ![w] =
                       Some(IF taken
                            THEN [t EXCEPT !.pending = <<>>, !.pc = "select",
                                           !.error = Some(ServerError("IntegrityError"))]
                            ELSE [t EXCEPT !.pending = Tail(t.pending), !.pc = "select",
                                           !.ws = t.ws \cup {RowToInsert(t, next_membership_id)}])]
           /\ next_membership_id' =
                 IF t.kind = "list" THEN next_membership_id + 1 ELSE next_membership_id
    /\ UNCHANGED <<contact_vars, phones, contact_phones, next_phone_id, memberships,
                   groups, contact_groups, next_group_id, request, response, served>>

\* the response of the view once the rows are committed: the member, or the
\* contact of the list, is fetched again
AddResponse(t, rows) ==
    LET found == IF t.kind = "member"
                 THEN GroupGet(groups, rows, t.user, t.source)
                 ELSE ContactListGet(rows, t.source, t.target)
    IN  IF t.error # None THEN The(t.error)
        ELSE IF found # "ok" THEN ServerError(found)
        ELSE Response(201, "ok", None,
                      IF t.kind = "member" THEN MemberViews(rows, t.source, t.target)
                      ELSE ContactListViews(rows, t.source, t.target))

\* add() is done: the transaction commits, or rolls back, and the view answers
AddCommit(w) ==
    /\ tx[w] # None
    /\ LET t == The(tx[w])
           rows == Committed(ThroughRows(t.kind), ThroughRows(t.kind) \cup t.ws, t.error)
       IN  /\ t.pc = "select" /\ t.pending = <<>>
           /\ IF t.kind = "member"
              THEN contact_groups' = rows /\ UNCHANGED memberships
              ELSE memberships' = rows /\ UNCHANGED contact_groups
           /\ Respond(w, t.request, AddResponse(t, rows))
    /\ UNCHANGED <<contact_vars, phones, contact_phones, next_phone_id,
                   next_membership_id, groups, next_group_id>>

\* group 1, as contact 1 created it
OneGroup ==
    {[id |-> 1, name |-> "Engineering", description |-> "", created_by |-> 1,
      updated_by |-> None]}

AddConcInit ==
    /\ contacts = InitContacts
    /\ next_contact_id = 4
    /\ phones = {}
    /\ contact_phones = {}
    /\ next_phone_id = 1
    /\ tx = IdleWorkers
    /\ memberships = {}
    /\ next_membership_id = 1
    /\ groups = OneGroup
    /\ contact_groups = {[contact |-> 1, group |-> 1, role |-> ROLE_ADMIN, inviter |-> 1]}
    /\ next_group_id = 2
    /\ request = NoRequest
    /\ response = NoResponse
    /\ served = 0

AddConcNext ==
    \/ \E w \in Workers, u \in {"u1", "u2"}, d \in ConcMemberInputs :
          BeginMemberAdd(w, u, 1, d)
    \/ \E w \in Workers, c \in {1, 2}, d \in ConcListInputs : BeginListAdd(w, c, d)
    \/ \E w \in Workers : AddSelect(w)
    \/ \E w \in Workers : AddInsert(w)
    \/ \E w \in Workers : AddCommit(w)

AddConcSpec == AddConcInit /\ [][AddConcNext]_vars

(***************************************************************************)
(* Contacts: ContactDeserializer and the contact views                     *)
(***************************************************************************)
\* requests served in one behaviour of ContactSpec
MaxContactRequests == 3

\* "u9" is the key of no User
ContactUserInputs == {Some("u1"), Some("u4"), Some("u9"), Absent}
NicknameInputs == {Some("Budi"), Absent}
CompanyInputs == {Some("Acme"), Absent}
ContactDataInputs ==
    [user : ContactUserInputs, nickname : NicknameInputs, company : CompanyInputs]
ContactPkInputs == {1, 2, 4}

\* the mutant of validate_user() that lets every user through
ValidateUser_Skipped(cs, user) == None

\* validate_user(): 'User ID {} has a contact list already.'
ValidateUser(cs, user) ==
    IF \E c \in cs : c.user = user
    THEN Some(Response(400, "invalid", None, {}))
    ELSE None

\* is_valid(): the user field when the payload has it (a key of User, then
\* validate_user()), then validate(), which wants a user on create
ContactIsValid(cs, instance, data) ==
    IF \E u \in data.user : u \notin Users
    THEN Some(Response(400, "does_not_exist", None, {}))
    ELSE IF \E u \in data.user : ValidateUser(cs, u) # None
    THEN ValidateUser(cs, The(data.user))
    ELSE IF instance = None /\ data.user = Absent
    THEN Some(Response(400, "required", None, {}))
    ELSE None

\* ModelSerializer.update(): the fields validated_data holds are assigned
AssignFields(instance, validated_data) ==
    [id |-> instance.id,
     user |-> IF validated_data.user = Absent THEN instance.user
              ELSE The(validated_data.user),
     nickname |-> IF validated_data.nickname = Absent THEN instance.nickname
                  ELSE The(validated_data.nickname),
     company |-> IF validated_data.company = Absent THEN instance.company
                 ELSE The(validated_data.company)]

\* the mutant of update() that leaves user in validated_data
PopUser_Kept(validated_data) == validated_data

\* validated_data.pop('user', None)
PopUser(validated_data) == [validated_data EXCEPT !.user = Absent]

\* ContactDeserializer.update()
ContactDeserializerUpdate(instance, validated_data) ==
    AssignFields(instance, PopUser(validated_data))

\* ModelSerializer.create(): the INSERT, which the unique index of the
\* OneToOneField refuses when the user has a Contact
ContactDeserializerCreate(cs, next_id, validated_data) ==
    LET taken == \E c \in cs : c.user = The(validated_data.user)
        row == AssignFields([id |-> next_id, user |-> "none", nickname |-> "",
                             company |-> ""],
                            validated_data)
    IN  [contacts |-> IF taken THEN cs ELSE cs \cup {row},
         next_id |-> next_id + 1,
         instance |-> row,
         error |-> IF taken THEN Some(ServerError("IntegrityError")) ELSE None]

ContactCreateRequest == Request("POST", "ContactListView")
ContactUpdateRequest == Request("PUT", "ContactDetailView")
ContactPartialUpdateRequest == Request("PATCH", "ContactDetailView")
ContactDestroyRequest == Request("DELETE", "ContactDetailView")

ContactServe(req, resp) ==
    /\ served < MaxContactRequests
    /\ Serve(req, resp)
    /\ UNCHANGED <<phones, next_phone_id, tx, next_membership_id, next_group_id>>

ContactObjects(pk) == {c \in contacts : c.id = pk}

RelatedUntouched == UNCHANGED <<contact_phones, memberships, groups, contact_groups>>

\* POST /contacts/
ContactListViewCreate(data) ==
    LET invalid == ContactIsValid(contacts, None, data)
        r == ContactDeserializerCreate(contacts, next_contact_id, data)
    IN  IF invalid # None
        THEN /\ UNCHANGED contact_vars /\ RelatedUntouched
             /\ ContactServe(ContactCreateRequest, The(invalid))
        ELSE /\ contacts' = r.contacts
             /\ next_contact_id' = r.next_id
             /\ RelatedUntouched
             /\ ContactServe(ContactCreateRequest,
                             IF r.error # None THEN The(r.error)
                             ELSE Response(201, "ok", None, {r.instance}))

ContactUpdateRequestOf(partial) ==
    IF partial THEN ContactPartialUpdateRequest ELSE ContactUpdateRequest

\* PUT and PATCH /contacts/{pk}/
ContactDetailViewUpdate(pk, data, partial) ==
    LET req == ContactUpdateRequestOf(partial)
        instance == The(ContactObjects(pk))
        invalid == ContactIsValid(contacts, ContactObjects(pk), data)
        updated == ContactDeserializerUpdate(instance, data)
    IN  IF ContactObjects(pk) = {}
        THEN /\ UNCHANGED contact_vars /\ RelatedUntouched
             /\ ContactServe(req, Http404)
        ELSE IF invalid # None
        THEN /\ UNCHANGED contact_vars /\ RelatedUntouched
             /\ ContactServe(req, The(invalid))
        ELSE /\ contacts' = (contacts \ {instance}) \cup {updated}
             /\ UNCHANGED next_contact_id
             /\ RelatedUntouched
             /\ ContactServe(req, Response(200, "ok", None, {updated}))

\* the groups that go with a contact: on_delete=CASCADE of Group.created_by
GroupsCreatedBy(pk) == {g \in groups : g.created_by = pk}

\* DELETE /contacts/{pk}/: instance.delete() with the on_delete of every
\* foreign key to Contact (CASCADE, and SET_NULL for Group.updated_by)
ContactDetailViewDestroy(pk) ==
    IF ContactObjects(pk) = {}
    THEN /\ UNCHANGED contact_vars /\ RelatedUntouched
         /\ ContactServe(ContactDestroyRequest, Http404)
    ELSE /\ contacts' = contacts \ ContactObjects(pk)
         /\ UNCHANGED next_contact_id
         /\ contact_phones' = {x \in contact_phones : x.contact # pk}
         /\ memberships' = {m \in memberships : m.owner # pk /\ m.contact # pk}
         /\ groups' = {IF g.updated_by = Some(pk) THEN [g EXCEPT !.updated_by = None]
                       ELSE g : g \in groups \ GroupsCreatedBy(pk)}
         /\ contact_groups' =
               {x \in contact_groups :
                   /\ x.contact # pk /\ x.inviter # pk
                   /\ \A g \in GroupsCreatedBy(pk) : x.group # g.id}
         /\ ContactServe(ContactDestroyRequest, Response(204, "ok", None, {}))

ContactInit ==
    /\ contacts = InitContacts
    /\ next_contact_id = 4
    /\ phones = {}
    /\ contact_phones = {}
    /\ next_phone_id = 1
    /\ tx = IdleWorkers
    /\ memberships = ListedContacts
    /\ next_membership_id = 3
    /\ groups = OneGroup
    /\ contact_groups = {[contact |-> 1, group |-> 1, role |-> ROLE_ADMIN, inviter |-> 1]}
    /\ next_group_id = 2
    /\ request = NoRequest
    /\ response = NoResponse
    /\ served = 0

ContactNext ==
    \/ \E d \in ContactDataInputs : ContactListViewCreate(d)
    \/ \E pk \in ContactPkInputs, d \in ContactDataInputs, partial \in BOOLEAN :
          ContactDetailViewUpdate(pk, d, partial)
    \/ \E pk \in ContactPkInputs : ContactDetailViewDestroy(pk)

ContactSpec == ContactInit /\ [][ContactNext]_vars

(***************************************************************************)
(* views.py: GroupDetailView.update, and the update requests of the four   *)
(* resources against a store that holds rows of each                       *)
(***************************************************************************)
GroupUpdateInputs ==
    [name : {Some("Platform"), Absent}, description : {Some("R&D"), Absent}]

GroupUpdateRequest == Request("PUT", "GroupDetailView")
GroupPartialUpdateRequest == Request("PATCH", "GroupDetailView")

GroupUpdateRequestOf(partial) ==
    IF partial THEN GroupPartialUpdateRequest ELSE GroupUpdateRequest

\* get_object() of the group views: the row of get_queryset() with id = pk
GroupObject(gs, cgs, user, pk) ==
    {m[1] : m \in {x \in GroupQueryset(gs, cgs, user) : x[1].id = pk}}

\* PUT and PATCH /groups/{pk}/
GroupDetailViewUpdate(user, pk, data, partial, store_fault) ==
    LET req == GroupUpdateRequestOf(partial)
        instance == GroupObject(groups, contact_groups, user, pk)
        invalid == GroupIsValid(user, data, partial)
        r == GroupDeserializerSave(groups, contact_groups, next_group_id, user,
                                   instance, data, store_fault)
    IN  IF instance = {}
        THEN GroupsUntouched /\ GroupServe(req, Http404)
        ELSE IF invalid # None
        THEN GroupsUntouched /\ GroupServe(req, The(invalid))
        ELSE /\ groups' = r.groups
             /\ contact_groups' = r.contact_groups
             /\ UNCHANGED <<next_group_id, list_vars>>
             /\ GroupServe(req,
                           IF r.error # None THEN The(r.error)
                           ELSE Response(200, "ok", None, {r.group}))

\* group 1 after contact 1 has created it and added contact 2 as a member
GroupWithMember ==
    { [contact |-> 1, group |-> 1, role |-> ROLE_ADMIN, inviter |-> 1],
      [contact |-> 2, group |-> 1, role |-> ROLE_MEMBER, inviter |-> 1] }

\* the two phone numbers of contact 1, the first one primary
StoredPhones ==
    { [id |-> 1, phone_number |-> "+62811", phone_type |-> TYPE_CELLPHONE],
      [id |-> 2, phone_number |-> "+62822", phone_type |-> TYPE_TELEPHONE] }

\* the keys of the update requests: the two phones and a key of none
StoredPhoneIds == {p.id : p \in StoredPhones} \cup {9}

\* requests served in one behaviour of UpdateSpec
MaxUpdateRequests == 2

UpdateInit ==
    /\ contacts = InitContacts
    /\ next_contact_id = 4
    /\ phones = StoredPhones
    /\ contact_phones =
          {[contact |-> 1, phone |-> p.id, is_primary |-> p.id = 1] : p \in StoredPhones}
    /\ next_phone_id = 3
    /\ tx = IdleWorkers
    /\ memberships = ListedContacts
    /\ next_membership_id = 3
    /\ groups = OneGroup
    /\ contact_groups = GroupWithMember
    /\ next_group_id = 2
    /\ request = NoRequest
    /\ response = NoResponse
    /\ served = 0

UpdateNext ==
    \/ \E pk \in ContactPkInputs, d \in ContactDataInputs, partial \in BOOLEAN :
          served < MaxUpdateRequests /\ ContactDetailViewUpdate(pk, d, partial)
    \/ \E c \in PhoneContactIdInputs, pk \in StoredPhoneIds, d \in PhoneDataInputs,
          partial \in BOOLEAN :
          served < MaxUpdateRequests
          /\ ContactPhoneNumberDetailViewUpdate(c, pk, d, partial)
    \/ \E u \in Users, g \in GroupIds, d \in GroupUpdateInputs,
          partial \in BOOLEAN, store_fault \in BOOLEAN :
          served < MaxUpdateRequests
          /\ GroupDetailViewUpdate(u, g, d, partial, store_fault)
    \/ \E u \in Users, g \in GroupIds, pk \in MemberPkInputs,
          d \in MemberDataInputs, partial \in BOOLEAN :
          served < MaxUpdateRequests
          /\ ContactGroupDetailViewUpdate(u, g, pk, d, partial)

UpdateSpec == UpdateInit /\ [][UpdateNext]_vars

(***************************************************************************)
(* Properties of the phone-number requests                                 *)
(***************************************************************************)
PrimaryPhones(contact_id) ==
    {x \in contact_phones : x.contact = contact_id /\ x.is_primary}

PhonesOf(contact_id) == {x \in contact_phones : x.contact = contact_id}

\* C1: with the phone-number requests served one at a time, every contact
\* has at most one ContactPhone row with is_primary = true.
C1_AtMostOnePrimary ==
    \A c \in contacts : Cardinality(PrimaryPhones(c.id)) <= 1

\* an update has just made primary one of the several phones of a contact
C1_Witness ==
    /\ request = PhoneUpdateRequest
    /\ response.status = 200
    /\ \E v \in response.body :
          /\ v.is_primary
          /\ \E c \in contacts :
                /\ PrimaryPhones(c.id) = {x \in PhonesOf(c.id) : x.phone = v.id}
                /\ Cardinality(PhonesOf(c.id)) >= 2

\* C2: when no request is in flight any more, whatever the interleaving of
\* the requests' statements was, every contact has at most one ContactPhone
\* row with is_primary = true.
C2_AtMostOnePrimaryAfterConcurrentRequests ==
    InFlight = {} =>
        \A c \in contacts : Cardinality(PrimaryPhones(c.id)) <= 1

\* C3: a valid create request with is_primary = true for a contact that has
\* a primary phone is answered 400 with an error naming the contact's id,
\* and no row of Phone or ContactPhone is added or changed.
C3_PrimaryCreateRejected ==
    [][\A c \in PhoneContactIdInputs, d \in PhoneDataInputs :
          ( /\ ContactPhoneNumberListViewCreate(c, d)
            /\ ContactExists(c)
            /\ PhoneIsValid(phones, None, d, FALSE) = None
            /\ d.is_primary = Some(TRUE)
            /\ PrimaryPhones(c) # {} )
          => /\ response'.status = 400
             /\ response'.detail = "has_primary_phone"
             /\ response'.cited = Some(c)
             /\ phones' = phones
             /\ contact_phones' = contact_phones]_vars

\* a create request has just been rejected for a contact with a primary phone
C3_Witness ==
    /\ request = PhoneCreateRequest
    /\ response.status = 400
    /\ response.detail = "has_primary_phone"
    /\ \E c \in contacts : response.cited = Some(c.id) /\ PrimaryPhones(c.id) # {}

\* C4: an update with is_primary = true is rejected by the primary-phone
\* check only if the contact has a primary association other than the one
\* of the phone being updated, and a write with is_primary = false is never
\* rejected by the check.
C4_RejectsOnlyForAnotherPrimary ==
    [][\A c \in PhoneContactIdInputs, pk \in PhoneIds, d \in PhoneDataInputs,
          partial \in BOOLEAN :
          ( /\ ContactPhoneNumberDetailViewUpdate(c, pk, d, partial)
            /\ response'.detail = "has_primary_phone" )
          => /\ d.is_primary = Some(TRUE)
             /\ \E x \in PrimaryPhones(c) : x.phone # pk]_vars

\* C5 as stated: a request has written no Phone row before its
\* primary-phone check has passed.
C5_NoPhoneWriteBeforeCheck ==
    \A w \in InFlight :
        The(tx[w]).t.ws.phone # None => The(tx[w]).t.checked

\* C5 as amended: a request writes the ContactPhone association only after
\* its check has passed, and the committed rows change only when a request
\* whose check has passed commits; the Phone row written before the check
\* stays inside the transaction.
C5_CheckBeforeAssociationAndCommit ==
    [][/\ \A w \in Workers :
             \A s \in tx'[w] : s.t.ws.cp # None => s.t.checked
       /\ (phones' # phones \/ contact_phones' # contact_phones)
             => \E w \in InFlight :
                   /\ The(tx[w]).t.checked
                   /\ The(tx[w]).t.error = None
                   /\ tx'[w] = None]_vars

\* a create request has inserted its Phone row and failed the check
\* afterwards: the id is used up and the row is not in the store
C5_Witness ==
    /\ request = PhoneCreateRequest
    /\ response.status = 400
    /\ response.detail = "has_primary_phone"
    /\ next_phone_id > 1
    /\ \A p \in phones : p.id # next_phone_id - 1

(***************************************************************************)
(* Properties of the group and group-member requests                       *)
(***************************************************************************)
\* a request of user that adds a member to group_id, changes the role of one
\* of its members or removes one
MemberMutation(user, group_id) ==
    \/ \E d \in MemberDataInputs : ContactGroupViewCreate(user, group_id, d)
    \/ \E pk \in MemberPkInputs, d \in MemberDataInputs, partial \in BOOLEAN :
          ContactGroupDetailViewUpdate(user, group_id, pk, d, partial)
    \/ \E pk \in MemberPkInputs : ContactGroupDetailViewDestroy(user, group_id, pk)

MemberRead(user, group_id) ==
    \/ ContactGroupViewList(user, group_id)
    \/ \E pk \in MemberPkInputs : ContactGroupDetailViewRetrieve(user, group_id, pk)

\* C7: a GET on the member list of group G or on one member of G, made by a
\* requester whose contact has no ContactGroup row in G, is answered 404 with
\* no member data, whether or not G exists.
C7_NonMemberReadIsNotFound ==
    [][\A u \in Users, g \in GroupIds :
          (MemberRead(u, g) /\ ~IsGroupMember(contact_groups, g, u))
          => response'.status = 404 /\ response'.body = {}]_vars

CreatorRow(g) ==
    [contact |-> g.created_by, group |-> g.id,
     role |-> ROLE_ADMIN, inviter |-> g.created_by]

\* C9: a group creation answered 201 to the user of contact C adds one group,
\* whose created_by is C and whose ContactGroup rows are exactly the row
\* (contact = C, role = admin, inviter = C).
C9_CreatorIsTheOnlyAdmin ==
    [][\A u \in Users, d \in GroupDataInputs, f \in BOOLEAN :
          (GroupListViewCreate(u, d, f) /\ response'.status = 201)
          => \E g \in groups' :
                /\ groups' \ groups = {g}
                /\ g.created_by \in ContactsOf(u)
                /\ RowsOfGroup(contact_groups', g.id) = {CreatorRow(g)}]_vars

C9_Witness ==
    /\ request = GroupCreateRequest
    /\ response.status = 201
    /\ \E g \in groups :
          /\ response.body = {g}
          /\ CreatorRow(g) \in contact_groups

\* C10: every step that adds a Group row adds, in the same step, the admin
\* ContactGroup row of its creator; and a group creation in which the insert
\* of that row fails leaves no Group row and no ContactGroup row behind.
C10_GroupCreationIsAllOrNothing ==
    [][/\ \A g \in groups' \ groups : CreatorRow(g) \in contact_groups' \ contact_groups
       /\ \A u \in Users, d \in GroupDataInputs :
             (GroupListViewCreate(u, d, TRUE) /\ response'.status = 500)
             => groups' = groups /\ contact_groups' = contact_groups]_vars

C10_Witness ==
    /\ request = GroupCreateRequest
    /\ response = ServerError("DatabaseError")
    /\ next_group_id > 1
    /\ \A g \in groups : g.id # next_group_id - 1

(***************************************************************************)
(* Properties of accessible_for and the group list                         *)
(***************************************************************************)
\* the groups a contact created or has a ContactGroup row in
GroupsOfContact(contact_id) ==
    {g \in groups : g.created_by = contact_id
                    \/ \E x \in RowsOfGroup(contact_groups, g.id) : x.contact = contact_id}

\* a result holds each group at most once and holds exactly the groups gs
HoldsOnce(rows, gs) ==
    /\ {m[1] : m \in rows} = gs
    /\ \A m, n \in rows : m[1] = n[1] => m = n

C13_AtMostOneMembershipRow ==
    \A m, n \in memberships :
        (m.owner = n.owner /\ m.contact = n.contact) => m = n

\* contact 1 was added to the list of contact 2 when contact 2 had it already:
\* the member served is the mirror row of the add of 2 to the list of 1
C13_Witness ==
    /\ request = ListCreateRequest
    /\ response.status = 201
    /\ \E v \in response.body : v.row = 2 /\ v.id = 1
    /\ \E m \in memberships : m.id = 1 /\ m.owner = 1 /\ m.contact = 2
    /\ \E m \in memberships : m.id = 2 /\ m.owner = 2 /\ m.contact = 1

\* C14: a request that adds to an owner's contact list a contact that is in
\* that list already is answered 400 and leaves the ContactMembership rows
\* as they were.
C14_DuplicateAddRejected ==
    [][\A c \in ListOwnerInputs, d \in ListDataInputs :
          (/\ ContactOfContactListViewCreate(c, d)
           /\ \E b \in d.contact : MembershipRows(memberships, c, b) # {})
          => response'.status = 400 /\ memberships' = memberships]_vars

\* the contact list of a contact: the rows it owns
OwnedRows(ms, owner_id) == {m \in ms : m.owner = owner_id}

\* C16: adding contact B to the contact list of another contact A, or
\* removing B from it, leaves the rows with owner = B as they were.
C16_MembershipIsDirected ==
    [][\A a \in ListOwnerInputs, b \in ListPkInputs :
          (/\ a # b
           /\ \/ \E d \in ListDataInputs :
                    d.contact = Some(b) /\ ContactOfContactListViewCreate(a, d)
              \/ ContactOfContactDetailViewDestroy(a, b))
          => OwnedRows(memberships', b) = OwnedRows(memberships, b)]_vars

(***************************************************************************)
(* Properties of the interleaved add requests                              *)
(***************************************************************************)
\* C12: in every reachable state, the states reached by interleaved
\* add-member requests for the same contact and group among them, there is
\* at most one ContactGroup row for each (contact, group) pair and the role
\* of every ContactGroup row is admin or member.
C12_ContactGroupRowsAreUnique ==
    /\ \A x, y \in contact_groups :
          (x.contact = y.contact /\ x.group = y.group) => x = y
    /\ \A x \in contact_groups : x.role \in ROLE_CHOICES

\* of two interleaved requests adding contact 2 to group 1, one has lost
C12_Witness ==
    /\ request = MemberCreateRequest
    /\ response = ServerError("IntegrityError")
    /\ \E x \in contact_groups : x.contact = 2 /\ x.group = 1

\* C15: two concurrent requests adding the same contact to the same owner's
\* contact list leave at most one ContactMembership row for that pair.
C15_AtMostOneMembershipRowAfterConcurrentAdds ==
    \A a, b \in {1, 2, 3} : Cardinality(MembershipRows(memberships, a, b)) <= 1

C18_UserIsImmutable ==
    [][\A c \in contacts, d \in contacts' : c.id = d.id => c.user = d.user]_vars

\* an update was accepted and has changed the nickname of contact 2
C18_Witness ==
    /\ request \in {ContactUpdateRequest, ContactPartialUpdateRequest}
    /\ response.status = 200
    /\ \E c \in contacts : c.id = 2 /\ c.user = "u2" /\ c.nickname = "Budi"

\* C19: an update request on an existing Contact whose payload names a user
\* is answered 400, whatever the user named, and leaves the Contact rows as
\* they were.
C19_UserOnUpdateRejected ==
    [][\A pk \in ContactPkInputs, d \in ContactDataInputs, partial \in BOOLEAN :
          (/\ ContactDetailViewUpdate(pk, d, partial)
           /\ ContactObjects(pk) # {}
           /\ d.user # Absent)
          => response'.status = 400 /\ contacts' = contacts]_vars

\* C20: after every contact create, update or delete request no user owns
\* more than one Contact, and a create request that names a user owning a
\* Contact, or no user, is answered 400 and creates no Contact row.
C20_OneContactPerUser ==
    [][/\ \A c, d \in contacts' : c.user = d.user => c = d
       /\ \A data \in ContactDataInputs :
             (/\ ContactListViewCreate(data)
              /\ \/ data.user = Absent
                 \/ \E c \in contacts : data.user = Some(c.user))
             => response'.status = 400 /\ contacts' = contacts]_vars

\* the user of a deleted Contact has created a Contact again
C20_Witness ==
    /\ request = ContactCreateRequest
    /\ response.status = 201
    /\ \E c \in contacts : c.user = "u1" /\ c.id >= 4
    /\ \A c, d \in contacts : c.user = d.user => c = d

(***************************************************************************)
(* Properties of the update requests                                       *)
(***************************************************************************)
\* the fields of a payload and of a row
ContactFields == {"nickname", "company"}
GroupFields == {"name", "description"}
PhoneFields == {"phone_number", "phone_type"}

\* every row of the table is there after the step with the same value in
\* each field the payload leaves out
OmittedKept(rows, rows_after, data, fields) ==
    \A r \in rows : \E q \in rows_after :
        /\ q.id = r.id
        /\ \A f \in fields : data[f] = Absent => q[f] = r[f]

\* the tables the update requests write
UpdatedTables == <<contacts, groups, phones, contact_phones, contact_groups>>

\* C21: a PATCH of a contact, of a group, of a contact's phone number or of
\* a group member leaves every field that its payload omits (nickname,
\* company; name, description; phone_number, phone_type, is_primary; role)
\* with the value stored before the request: a PATCH that is not answered
\* 200 writes nothing, and one that is keeps the omitted fields
C21_PatchKeepsOmittedFields ==
    [][/\ (request'.method = "PATCH" /\ response'.status # 200)
             => UNCHANGED UpdatedTables
       /\ (request' = ContactPartialUpdateRequest /\ response'.status = 200)
             => \A pk \in ContactPkInputs, d \in ContactDataInputs :
                   ContactDetailViewUpdate(pk, d, TRUE)
                   => OmittedKept(contacts, contacts', d, ContactFields)
       /\ (request' = GroupPartialUpdateRequest /\ response'.status = 200)
             => \A u \in Users, g \in GroupIds, d \in GroupUpdateInputs :
                   GroupDetailViewUpdate(u, g, d, TRUE, FALSE)
                   => OmittedKept(groups, groups', d, GroupFields)
       /\ (request' = PhonePartialUpdateRequest /\ response'.status = 200)
             => \A c \in PhoneContactIdInputs, pk \in StoredPhoneIds,
                   d \in PhoneDataInputs :
                   ContactPhoneNumberDetailViewUpdate(c, pk, d, TRUE)
                   => /\ OmittedKept(phones, phones', d, PhoneFields)
                      /\ d.is_primary = Absent => contact_phones' = contact_phones
       /\ (request' = MemberPartialUpdateRequest /\ response'.status = 200)
             => \A u \in Users, g \in GroupIds, pk \in MemberPkInputs,
                   d \in MemberDataInputs :
                   ContactGroupDetailViewUpdate(u, g, pk, d, TRUE)
                   => (d.role = Absent => contact_groups' = contact_groups)]_vars

\* a PATCH with the description alone was accepted: group 1 has the new
\* description and the name it had
C21_Witness ==
    /\ request = GroupPartialUpdateRequest
    /\ response.status = 200
    /\ \E g \in groups :
          g.id = 1 /\ g.name = "Engineering" /\ g.description = "R&D"

(***************************************************************************)
(* Properties of the group lookup of the member views                      *)
(***************************************************************************)
\* the group is created by the requester or has the requester as a member
Accessible(g, user) ==
    \/ CreatedBy(g, user)
    \/ \E x \in RowsOfGroup(contact_groups, g.id) : x.contact \in ContactsOf(user)

C25_CreateWithoutIsPrimaryIsNonPrimary ==
    [][\A c \in PhoneContactIdInputs, d \in PhoneDataInputs :
          (/\ ContactPhoneNumberListViewCreate(c, d)
           /\ ContactExists(c)
           /\ d.is_primary = Absent
           /\ PhoneIsValid(phones, None, d, FALSE) = None)
          => /\ response'.status = 201
             /\ \E cp \in contact_phones' \ contact_phones :
                   cp.contact = c /\ ~cp.is_primary]_vars
====
